---- MODULE Spec2Model ----
(***************************************************************************)
(* Model of the Onfido relay server (src/unnamed/part_002, first variant,  *)
(* lines 1-220): the in-memory webhookStore, the POST /webhook/onfido      *)
(* reconciler, the GET /api/webhook_runs/:id debug read, the provider      *)
(* client onfidoFetch and the GET /api/workflow_runs/:id run view; and of  *)
(* the address formatting of the run view of src/unnamed/part_000.         *)
(*                                                                         *)
(* JavaScript values are modelled as follows.  Scalars are strings, with   *)
(* the two markers Null (JSON null) and Undefined (a missing property).    *)
(* A JavaScript object is a function whose DOMAIN is the set of its own    *)
(* keys, so {...a, ...b} is Spread(a, b) and a missing key is really       *)
(* missing.  An object nested inside output (output.properties,            *)
(* output.breakdown) is stored by reference and is a string naming it;     *)
(* PropertiesBody and the two marker tests give what the code reads of it. *)
(***************************************************************************)
EXTENDS Naturals, Sequences, FiniteSets, TLC

VARIABLES
    webhookStore,   \* the Map of line 33: a sequence of [key, value] entries in insertion order
    clock,          \* number of timestamps taken so far by new Date() (line 108)
    lastReq,        \* history: the request handled last
    lastRes,        \* history: the response sent to it
    prevStore,      \* history: webhookStore as it was before that request
    repeat,         \* history: the last request is the same request as the one before it
    ingested,       \* history: the run identifiers under which a delivery has been stored
    inflight,       \* the requests received and not yet answered: deliveries whose body is
                    \* being read and run views suspended on a provider call
    log             \* history: the deliveries the handler has run on, in the order it ran

vars == <<webhookStore, clock, lastReq, lastRes, prevStore, repeat, ingested, inflight, log>>

-----------------------------------------------------------------------------
(* Bounds of the model *)

MaxDeliveries == 3      \* stored deliveries per behaviour
MaxInFlight == 2        \* requests received and not yet answered
MaxRaces == 2           \* deliveries per behaviour that race with run views

-----------------------------------------------------------------------------
(* JavaScript values *)

Null == "null"
Undefined == "undefined"
EmptyObj == << >>

\* Boolean(v) for the scalars of the model; every object is truthy
Truthy(v) == v \notin {Null, Undefined, ""}

\* a || b
JsOr(a, b) == IF Truthy(a) THEN a ELSE b

\* o?.k for a scalar property
Get(o, k) == IF k \in DOMAIN o THEN o[k] ELSE Undefined

\* o?.k || {} for an object-valued property
GetObj(o, k) == IF k \in DOMAIN o THEN o[k] ELSE EmptyObj

\* { ...a, ...b }
Spread(a, b) == [k \in DOMAIN a \cup DOMAIN b |-> IF k \in DOMAIN b THEN b[k] ELSE a[k]]

\* o[k] = v  (assignment to one property of a copy)
Put(o, k, v) == [j \in DOMAIN o \cup {k} |-> IF j = k THEN v ELSE o[j]]

\* { [k]: v }, or {} when v is undefined
Opt(k, v) == IF v = Undefined THEN EmptyObj ELSE [j \in {k} |-> v]

-----------------------------------------------------------------------------
(* The Map of line 33.  Keys are compared by value (SameValueZero on        *)
(* strings); set() replaces the value of an existing key in place and       *)
(* appends a new entry otherwise.                                           *)

MapKeys(m) == {m[i].key : i \in 1..Len(m)}

MapHas(m, k) == k \in MapKeys(m)

MapGet(m, k) ==
    IF MapHas(m, k)
    THEN m[CHOOSE i \in 1..Len(m) : m[i].key = k].value
    ELSE Undefined

MapSet(m, k, v) ==
    IF MapHas(m, k)
    THEN [i \in 1..Len(m) |-> IF m[i].key = k THEN [key |-> k, value |-> v] ELSE m[i]]
    ELSE Append(m, [key |-> k, value |-> v])

-----------------------------------------------------------------------------
(* Objects nested in output.  The code reads the keys and values of        *)
(* output.properties (line 73) and the truthiness of the two marker        *)
(* sub-fields of output.breakdown (lines 81, 85).                          *)

PropertiesObjects == {"{first_name:null}", "{first_name:Bob}"}

PropertiesBody(p) ==
    CASE p = "{first_name:null}" -> [first_name |-> Null]
      [] p = "{first_name:Bob}"  -> [first_name |-> "Bob"]
      [] OTHER                   -> EmptyObj

BreakdownObjects == {"{visual_authenticity}", "{device}", "{data_comparison}"}

\* output.breakdown.visual_authenticity (line 81)
HasVisualAuthenticity(b) == b = "{visual_authenticity}"

\* output.breakdown.device (line 85)
HasDevice(b) == b = "{device}"

\* typeof v === "object" for a truthy v
IsObject(v) == v \in PropertiesObjects \cup BreakdownObjects

-----------------------------------------------------------------------------
(* Request bodies.  A body is a byte string: its length and its text.  The  *)
(* text either is JSON text, carrying the value JSON.parse returns for it,  *)
(* or is not JSON.                                                          *)

RawLimit == 5242880     \* express.raw({ limit: "5mb" }), line 35

\* JSON.parse(raw.toString("utf8")), line 40
JSONParse(text) ==
    CASE text.syntax = "json" /\ text.kind = "object" ->
           [ok |-> TRUE, kind |-> "object", value |-> text.value]
      [] text.syntax = "json" /\ text.kind = "literal" ->
           [ok |-> TRUE, kind |-> "literal", literal |-> text.literal]
      [] OTHER -> [ok |-> FALSE]

\* raw of line 37: the buffer's text, or String(req.body || "") when the body
\* parser left no buffer (a request with no body or no Content-Type: req.body
\* is {} or undefined, and the string is "[object Object]" or "")
RawText(body) ==
    IF body.buffer THEN body.text
    ELSE [syntax |-> "garbage", chars |-> body.str]

\* payload?.payload of lines 45, 47, 52: undefined unless the document is an object
PayloadOf(parsed) ==
    IF parsed.kind = "object" THEN GetObj(parsed.value, "payload") ELSE EmptyObj

-----------------------------------------------------------------------------
(* POST /webhook/onfido, lines 35-117 *)

\* lines 49-53
RunIdOf(inner) ==
    LET resrc == GetObj(inner, "resource")
        obj   == GetObj(inner, "object")
    IN JsOr(Get(resrc, "workflow_run_id"),
         JsOr(Get(obj, "workflow_run_id"),
           JsOr(IF Get(inner, "resource_type") = "workflow_run"
                THEN Get(resrc, "id") ELSE Null,
                Null)))

\* line 55: if (!runId) return
NoRunId(runId) == ~Truthy(runId)

\* lines 57-62: the record to merge into when the store has none
FreshRecord ==
    [raw_output |-> EmptyObj, breakdowns |-> EmptyObj,
     document_breakdown |-> Null, device_breakdown |-> Null]

Existing(store, runId) ==
    IF MapHas(store, runId) THEN MapGet(store, runId) ELSE FreshRecord

\* MergeTopLevel started from an empty object instead of the copy of raw_output
MergeTopLevelFresh(rawOutput, output) ==
    [k \in {j \in DOMAIN output : output[j] \notin {Null, Undefined}} |-> output[k]]

\* lines 64-70: copy of raw_output overlaid with the non-null fields of output
MergeTopLevel(rawOutput, output) ==
    LET set == {k \in DOMAIN output : output[k] \notin {Null, Undefined}}
    IN [k \in DOMAIN rawOutput \cup set |-> IF k \in set THEN output[k] ELSE rawOutput[k]]

\* lines 72-74: every key of output.properties is assigned, whatever its value
MergeProperties(mergedOutput, output) ==
    LET props == Get(output, "properties")
    IN IF Truthy(props) /\ IsObject(props)
       THEN Spread(mergedOutput, PropertiesBody(props))
       ELSE mergedOutput

\* lines 64-74
MergedOutput(rawOutput, output) ==
    MergeProperties(MergeTopLevel(rawOutput, output), output)

\* line 76
TaskDefIdOf(inner) ==
    JsOr(Get(GetObj(inner, "resource"), "task_def_id"),
      JsOr(Get(GetObj(inner, "object"), "task_def_id"), Null))

\* UpdateBreakdowns with the device marker promoted into the document slot
UpdateBreakdownsDeviceAsDocument(existing, taskDefId, output) ==
    LET b == Get(output, "breakdown")
    IN IF Truthy(taskDefId) /\ Truthy(b) /\ IsObject(b)
       THEN [existing EXCEPT
               !.breakdowns = Put(@, taskDefId, b),
               !.document_breakdown = IF HasVisualAuthenticity(b) \/ HasDevice(b) THEN b ELSE @]
       ELSE existing

\* UpdateBreakdowns with breakdowns replaced by a mapping of the one task
UpdateBreakdownsReplaced(existing, taskDefId, output) ==
    LET b == Get(output, "breakdown")
    IN IF Truthy(taskDefId) /\ Truthy(b) /\ IsObject(b)
       THEN [existing EXCEPT
               !.breakdowns = Put(EmptyObj, taskDefId, b),
               !.document_breakdown = IF HasVisualAuthenticity(b) THEN b ELSE @,
               !.device_breakdown = IF HasDevice(b) THEN b ELSE @]
       ELSE existing

\* lines 78-88: the in-place update of existing
UpdateBreakdowns(existing, taskDefId, output) ==
    LET b == Get(output, "breakdown")
    IN IF Truthy(taskDefId) /\ Truthy(b) /\ IsObject(b)
       THEN [existing EXCEPT
               !.breakdowns = Put(@, taskDefId, b),
               !.document_breakdown = IF HasVisualAuthenticity(b) THEN b ELSE @,
               !.device_breakdown = IF HasDevice(b) THEN b ELSE @]
       ELSE existing

\* ResolveStatus without the test against "processing"
ResolveStatusAnyString(existingStatus, resrcStatus) ==
    IF resrcStatus # Undefined /\ resrcStatus # Null THEN resrcStatus ELSE existingStatus

\* ResolveStatus that keeps a status once one is recorded
ResolveStatusFirstWins(existingStatus, resrcStatus) ==
    IF existingStatus \notin {Undefined, Null} THEN existingStatus
    ELSE IF resrcStatus # Undefined /\ resrcStatus # Null /\ resrcStatus # "processing"
    THEN resrcStatus
    ELSE existingStatus

\* lines 90-91
ResolveStatus(existingStatus, resrcStatus) ==
    IF resrcStatus # Undefined /\ resrcStatus # Null /\ resrcStatus # "processing"
    THEN resrcStatus
    ELSE existingStatus

\* ResolveResult without existing.result
ResolveResultForgetful(existingResult, output) ==
    JsOr(Get(output, "sub_result"), JsOr(Get(output, "result"), Null))

\* ResolveResult with output.result looked up before output.sub_result
ResolveResultResultFirst(existingResult, output) ==
    JsOr(Get(output, "result"),
      JsOr(Get(output, "sub_result"),
        JsOr(existingResult, Null)))

\* line 93
ResolveResult(existingResult, output) ==
    JsOr(Get(output, "sub_result"),
      JsOr(Get(output, "result"),
        JsOr(existingResult, Null)))

\* PrimaryBreakdown with the well-known task looked up before document_breakdown
PrimaryBreakdownTaskFirst(existing) ==
    JsOr(Get(existing.breakdowns, "document_check_with_address_information"),
      JsOr(existing.document_breakdown,
        JsOr(Get(existing, "breakdown"), Null)))

\* lines 95-99, read from existing after the update of lines 78-88
PrimaryBreakdown(existing) ==
    JsOr(existing.document_breakdown,
      JsOr(Get(existing.breakdowns, "document_check_with_address_information"),
        JsOr(Get(existing, "breakdown"), Null)))

\* lines 101-109, given existing as updated by lines 78-88
Merged(existing, runId, status, result, mergedOutput, t) ==
    Spread(existing,
           [workflow_run_id |-> runId,
            status          |-> status,
            result          |-> result,
            breakdown       |-> PrimaryBreakdown(existing),
            raw_output      |-> mergedOutput,
            received_at     |-> t])

\* MergeRecord with primaryBreakdown read before the update of lines 78-88
MergeRecordStaleBreakdown(store, runId, inner, t) ==
    LET resrc    == GetObj(inner, "resource")
        output   == GetObj(resrc, "output")
        old      == Existing(store, runId)
        existing == UpdateBreakdowns(old, TaskDefIdOf(inner), output)
    IN Spread(Merged(existing, runId,
                     ResolveStatus(Get(old, "status"), Get(resrc, "status")),
                     ResolveResult(Get(old, "result"), output),
                     MergedOutput(old.raw_output, output),
                     t),
              [breakdown |-> PrimaryBreakdown(old)])

\* MergeRecord with workflow_run_id taken from resource.id instead of runId
MergeRecordResourceId(store, runId, inner, t) ==
    LET resrc    == GetObj(inner, "resource")
        output   == GetObj(resrc, "output")
        old      == Existing(store, runId)
        existing == UpdateBreakdowns(old, TaskDefIdOf(inner), output)
    IN Merged(existing, Get(resrc, "id"),
              ResolveStatus(Get(old, "status"), Get(resrc, "status")),
              ResolveResult(Get(old, "result"), output),
              MergedOutput(old.raw_output, output),
              t)

\* lines 57-109: the record stored for a delivery that resolved to runId
MergeRecord(store, runId, inner, t) ==
    LET resrc    == GetObj(inner, "resource")
        output   == GetObj(resrc, "output")
        old      == Existing(store, runId)
        existing == UpdateBreakdowns(old, TaskDefIdOf(inner), output)
    IN Merged(existing, runId,
              ResolveStatus(Get(old, "status"), Get(resrc, "status")),
              ResolveResult(Get(old, "result"), output),
              MergedOutput(old.raw_output, output),
              t)

Ok200 == [status |-> 200, text |-> "ok"]

\* express.raw's answer to a body longer than its limit; the handler is not run
TooLarge413 == [status |-> 413, text |-> "request entity too large"]

\* express.raw({ type: "*/*", limit: "5mb" }), line 35
BodyAccepted(body) == ~body.buffer \/ body.len <= RawLimit

\* HandlerStore with one breakdowns object shared by every record, as a record
\* initialised (lines 57-62) from a constant instead of a new literal would have
HandlerStoreSharedBreakdowns(store, body, t) ==
    LET parsed == JSONParse(RawText(body))
    IN IF ~parsed.ok THEN store
       ELSE LET inner == PayloadOf(parsed)
                runId == RunIdOf(inner)
            IN IF NoRunId(runId) THEN store
               ELSE LET merged == MergeRecord(store, runId, inner, t)
                        stored == MapSet(store, runId, merged)
                    IN [i \in 1..Len(stored) |->
                          [key   |-> stored[i].key,
                           value |-> [stored[i].value EXCEPT !.breakdowns = merged.breakdowns]]]

\* lines 36-116: the store after the handler ran on an accepted body
HandlerStore(store, body, t) ==
    LET parsed == JSONParse(RawText(body))
    IN IF ~parsed.ok THEN store
       ELSE LET inner == PayloadOf(parsed)
                runId == RunIdOf(inner)
            IN IF NoRunId(runId) THEN store
               ELSE MapSet(store, runId, MergeRecord(store, runId, inner, t))

\* lines 42, 55, 112, 115: every return of the handler
HandlerResponse(body) == Ok200

\* does the handler read the clock (line 108) on this body?
Stores(body) ==
    /\ BodyAccepted(body)
    /\ JSONParse(RawText(body)).ok
    /\ ~NoRunId(RunIdOf(PayloadOf(JSONParse(RawText(body)))))

\* GET /api/webhook_runs/:id, lines 120-124
WebhookRunResponse(store, id) ==
    IF ~MapHas(store, id)
    THEN [status |-> 404, json |-> [message |-> "not found"]]
    ELSE [status |-> 200, json |-> MapGet(store, id)]

-----------------------------------------------------------------------------
(* The provider client onfidoFetch, lines 128-147.  The provider's answer   *)
(* to a call is either a response, with its status and the text of its     *)
(* body, or none (fetch rejects).  What onfidoFetch makes of it is either   *)
(* the parsed body or the error it throws; an error is the object the      *)
(* catch clauses read: its message and, for the Error of lines 141-143,    *)
(* its status and payload.                                                 *)

\* the text of a response without a body
EmptyText == [syntax |-> "empty"]

\* res.ok
ResOk(status) == status \in 200..299

\* line 138: text ? JSON.parse(text) : null
ParseBody(text) ==
    IF text.syntax = "empty"
    THEN [ok |-> TRUE, kind |-> "literal", literal |-> Null]
    ELSE JSONParse(text)

\* line 140
ErrorMessage(json, status) ==
    LET body == IF json.kind = "object" THEN json.value ELSE EmptyObj
    IN JsOr(Get(GetObj(body, "error"), "message"),
         JsOr(Get(body, "message"),
           "Onfido " \o ToString(status)))

\* lines 136-146
OnfidoFetch(answer) ==
    IF ~answer.arrived
    THEN [threw |-> TRUE, error |-> [name |-> "TypeError", message |-> "fetch failed"]]
    ELSE LET json == ParseBody(answer.text)
         IN IF ~json.ok
            THEN [threw |-> TRUE,
                  error |-> [name |-> "SyntaxError", message |-> "Unexpected token in JSON"]]
            ELSE IF ~ResOk(answer.status)
            THEN [threw |-> TRUE,
                  error |-> [name |-> "Error",
                             message |-> ErrorMessage(json, answer.status),
                             status |-> answer.status,
                             payload |-> json]]
            ELSE [threw |-> FALSE, json |-> json]

-----------------------------------------------------------------------------
(* GET /api/workflow_runs/:id, lines 176-216 *)

\* line 214: res.status(e.status || 500).json({ error: e.message, details: e.payload })
ErrorResponse(e) ==
    [status |-> IF "status" \in DOMAIN e THEN e.status ELSE 500,
     json   |-> Spread([error |-> e.message],
                       IF "payload" \in DOMAIN e THEN [details |-> e.payload] ELSE EmptyObj)]

\* a ?? null
OrNull(a) == IF a = Undefined THEN Null ELSE a

\* lines 184-189: the live output overlaid with the raw_output of the webhook record
ViewOutput(run, store, runId) ==
    Spread(GetObj(run, "output"),
           IF MapHas(store, runId) THEN MapGet(store, runId).raw_output ELSE EmptyObj)

\* line 194
NeedsApplicant(run, first_name, last_name) ==
    (~Truthy(first_name) \/ ~Truthy(last_name)) /\ Truthy(Get(run, "applicant_id"))

\* lines 200-201, given what the applicant lookup returned (null or an object)
NameFallback(name, applicant, k) ==
    JsOr(name, JsOr(IF applicant.kind = "object" THEN Get(applicant.value, k) ELSE Undefined,
                    Null))

\* line 205
FullName(first_name, last_name) ==
    LET parts == SelectSeq(<<first_name, last_name>>, Truthy)
    IN IF Len(parts) = 2 THEN parts[1] \o " " \o parts[2]
       ELSE IF Len(parts) = 1 THEN JsOr(parts[1], Null)
       ELSE Null

\* lines 207-212: res.json writes no key whose value is undefined
RunViewResponse(run, output, full_name) ==
    [status |-> 200,
     json   |-> Spread(run, Spread([output |-> output, full_name |-> full_name],
                                   Opt("status", Get(run, "status"))))]

\* line 211 on a run that is null: the TypeError of reading run.status
NullRunError ==
    [name |-> "TypeError", message |-> "Cannot read properties of null (reading 'status')"]

-----------------------------------------------------------------------------
(* The address of the run view of src/unnamed/part_000 (lines 118-133 and  *)
(* 198-237).  output.address may be a string or an object, and the code    *)
(* asks which with typeof: such a value is a record with its type, "null"  *)
(* and "undefined" for the two values without content.                     *)

Str(s) == [type |-> "string", str |-> s]
Obj(o) == [type |-> "object", obj |-> o]
JsNull == [type |-> "null"]
JsUndefined == [type |-> "undefined"]

\* typeof v
TypeOf(v) == IF v.type = "null" THEN "object" ELSE v.type

\* Boolean(v)
TruthyValue(v) == v.type = "object" \/ (v.type = "string" /\ v.str # "")

\* parts.join(sep)
RECURSIVE Join(_, _)
Join(parts, sep) ==
    IF parts = << >> THEN ""
    ELSE IF Len(parts) = 1 THEN parts[1]
    ELSE parts[1] \o sep \o Join(Tail(parts), sep)

\* part_000 lines 122-131
AddressKeys == <<"line1", "line2", "line3", "street", "town", "state", "postcode", "country">>

\* formatAddress without .filter(Boolean): a missing part is joined as ""
FormatAddressUnfiltered(addr) ==
    IF ~TruthyValue(addr) \/ TypeOf(addr) # "object"
    THEN IF TruthyValue(addr) THEN addr.str ELSE Null
    ELSE Join([i \in 1..Len(AddressKeys) |->
                 IF Truthy(Get(addr.obj, AddressKeys[i]))
                 THEN addr.obj[AddressKeys[i]] ELSE ""], ", ")

\* part_000 lines 118-133: a string, or Null
FormatAddress(addr) ==
    IF ~TruthyValue(addr) \/ TypeOf(addr) # "object"
    THEN IF TruthyValue(addr) THEN addr.str ELSE Null
    ELSE Join(SelectSeq([i \in 1..Len(AddressKeys) |-> Get(addr.obj, AddressKeys[i])],
                        Truthy), ", ")

\* part_000 lines 199, 211-213: address_obj, given the address of the applicant
\* when the fallback read one (undefined when it did not)
AddressObj(address, applicantAddress) ==
    LET own == IF TypeOf(address) = "object" THEN address ELSE JsNull
    IN IF ~TruthyValue(own) /\ TruthyValue(applicantAddress)
          /\ TypeOf(applicantAddress) = "object"
       THEN applicantAddress
       ELSE own

\* part_000 line 200: address_str
AddressStr(address) == IF TypeOf(address) = "string" THEN address.str ELSE Null

\* part_000 lines 219, 237: the address_formatted of the response
AddressFormatted(address, applicantAddress) ==
    JsOr(JsOr(AddressStr(address), FormatAddress(AddressObj(address, applicantAddress))),
         Null)

\* part_000 lines 221-239: the address fields of the response
AddressViewResponse(address, applicantAddress) ==
    LET address_obj == AddressObj(address, applicantAddress)
    IN [status |-> 200,
        json   |-> [address |-> IF TruthyValue(address_obj) THEN address_obj
                                ELSE IF Truthy(AddressStr(address)) THEN address
                                ELSE JsNull,
                    address_formatted |-> AddressFormatted(address, applicantAddress)]]

-----------------------------------------------------------------------------
(* The requests of the model *)

RunIds == {"run_1", "run_2"}

\* how a delivery names its run: resource_type and the identifying fields of resource
ByOwnId == [resource_type |-> "workflow_run", ids |-> [id |-> "run_1"]]
ByWorkflowRunId == [resource_type |-> "check", ids |-> [id |-> "chk_1", workflow_run_id |-> "run_2"]]
Unresolvable == [resource_type |-> "check", ids |-> [id |-> "chk_1"]]

Statuses == {Undefined, "processing", "approved"}

\* outputs of a workflow run: extracted fields, or the flat properties object
FieldOutputs ==
    { Spread(Opt("first_name", f), Opt("document_type", d)) :
        f \in {Undefined, Null, "Ana"}, d \in {Undefined, "passport"} }
      \cup { [properties |-> "{first_name:null}"] }

\* outputs of a single check: its breakdown and its result
CheckOutputs ==
    { [breakdown |-> "{visual_authenticity}", sub_result |-> "clear"],
      [breakdown |-> "{data_comparison}"] }

\* the document {"payload": {resource_type, resource}}
Doc(env, res) ==
    [payload |-> [resource_type |-> env.resource_type, resource |-> Spread(env.ids, res)]]

\* deliveries for run_1: every status with every output, and the two check results
Run1Docs ==
    { Doc(ByOwnId, Spread(Opt("status", s), [output |-> o])) :
        s \in Statuses, o \in FieldOutputs }
      \cup { Doc(ByOwnId, [task_def_id |-> "document_check_with_address_information",
                           output |-> o]) : o \in CheckOutputs }

\* deliveries for run_2
Run2Docs ==
    { Doc(ByWorkflowRunId, Spread(Opt("status", s), [output |-> o])) :
        s \in {"processing", "approved"},
        o \in {EmptyObj, [first_name |-> "Ana"]} }

\* deliveries that name no run
NoRunDocs ==
    { Doc(Unresolvable, r) :
        r \in { [output |-> EmptyObj],
                [status |-> "approved", output |-> [first_name |-> "Ana"]] } }

Docs == Run1Docs \cup Run2Docs \cup NoRunDocs

JsonText(doc) == [syntax |-> "json", kind |-> "object", value |-> doc]

Garbage == [syntax |-> "garbage", chars |-> "{\"payload\":"]

Texts ==
    {JsonText(d) : d \in Docs}
      \cup {[syntax |-> "json", kind |-> "literal", literal |-> Null], Garbage}

\* texts of the bodies over the limit
LargeTexts ==
    { Garbage,
      JsonText(Doc(Unresolvable, [output |-> EmptyObj])),
      JsonText(Doc(ByOwnId, [status |-> "approved", output |-> [first_name |-> "Ana"]])) }

Bodies ==
    {[buffer |-> TRUE, len |-> RawLimit, text |-> x] : x \in Texts}
      \cup {[buffer |-> TRUE, len |-> RawLimit + 1, text |-> x] : x \in LargeTexts}
      \cup {[buffer |-> FALSE, str |-> "[object Object]"]}

ReadIds == RunIds \cup {"unknown_id"}

\* the provider's answers: a response, or none when the call fails on the network
Answer(status, text) == [arrived |-> TRUE, status |-> status, text |-> text]
NoAnswer == [arrived |-> FALSE]

\* the body of a gateway in front of the provider
HtmlText == [syntax |-> "garbage", chars |-> "<html>502 Bad Gateway</html>"]

\* workflow runs as the provider returns them
LiveRuns ==
    { [status |-> "processing", output |-> [first_name |-> "Ana"], applicant_id |-> "app_1"],
      [status |-> "approved", output |-> [first_name |-> "Ana", last_name |-> "Pop"]],
      [status |-> "processing", output |-> [full_name |-> "Ana-Maria Pop"]] }

\* answers to GET /workflow_runs/:id
RunAnswers ==
    { Answer(200, JsonText(r)) : r \in LiveRuns }
      \cup { Answer(200, EmptyText),
             Answer(200, HtmlText),
             Answer(404, JsonText([error |-> [message |-> "workflow run not found"]])),
             Answer(401, JsonText([message |-> "unauthorized"])),
             Answer(500, EmptyText),
             Answer(502, HtmlText),
             NoAnswer }

\* answers to GET /applicants/:id
ApplicantAnswers ==
    { Answer(200, JsonText([first_name |-> "Ion", last_name |-> "Pop"])),
      Answer(200, EmptyText),
      Answer(404, JsonText([error |-> [message |-> "applicant not found"]])),
      Answer(502, HtmlText),
      NoAnswer }

\* the task definitions of the workflow
Tasks == {"document_check_with_address_information", "device_intelligence"}

\* how the result of a task names its run and its task: on the resource
ByTask(task) ==
    [resource_type |-> "workflow_task",
     ids |-> [id |-> "task_1", workflow_run_id |-> "run_1", task_def_id |-> task]]

\* results of the tasks of run_1, each with a breakdown
TaskDocs ==
    { Doc(ByTask(task), [output |-> [breakdown |-> b]]) :
        task \in Tasks, b \in BreakdownObjects }

\* a result that names its run and its task on payload.object
ObjectTaskDoc ==
    [payload |-> [resource_type |-> "workflow_task",
                  object   |-> [id |-> "task_2", workflow_run_id |-> "run_2",
                                task_def_id |-> "device_intelligence"],
                  resource |-> [output |-> [breakdown |-> "{device}"]]]]

\* a run whose output carries a breakdown: no task is named
RunBreakdownDoc ==
    Doc([resource_type |-> "workflow_run", ids |-> [id |-> "run_2"]],
        [status |-> "approved", output |-> [breakdown |-> "{visual_authenticity}"]])

\* a run named by payload.object.id only
ObjectIdDoc ==
    [payload |-> [resource_type |-> "workflow_run",
                  object |-> [id |-> "run_1", status |-> "approved"]]]

CheckDocs == TaskDocs \cup {ObjectTaskDoc, RunBreakdownDoc, ObjectIdDoc}

CheckBodies == {[buffer |-> TRUE, len |-> RawLimit, text |-> JsonText(d)] : d \in CheckDocs}

\* a part of an address: missing, empty, or the text of the part
PartValues(k) ==
    {Undefined, "",
     CASE k = "line1"    -> "Str. X"
       [] k = "line2"    -> "Bl. 4"
       [] k = "line3"    -> "Ap. 2"
       [] k = "street"   -> "Calea Y"
       [] k = "town"     -> "Cluj"
       [] k = "state"    -> "CJ"
       [] k = "postcode" -> "400000"
       [] OTHER          -> "RO"}

\* the objects with any of the parts
AddressObjects ==
    { [k \in {j \in DOMAIN c : c[j] # Undefined} |-> c[k]] :
        c \in [line1 : PartValues("line1"), line2 : PartValues("line2"),
               line3 : PartValues("line3"), street : PartValues("street"),
               town : PartValues("town"), state : PartValues("state"),
               postcode : PartValues("postcode"), country : PartValues("country")] }

\* output.address of the live run
AddressValues ==
    {Obj(o) : o \in AddressObjects}
      \cup {Str("Str. X 1, Cluj"), Str(""), JsNull, JsUndefined}

\* applicant.address as the fallback read it: undefined when it read nothing
ApplicantAddresses ==
    {JsUndefined, Str("Bd. Z 3, Iasi"), Obj([street |-> "Bd. Z", town |-> "Iasi"])}

AddressRoute == "GET /api/workflow_runs/:id (part_000)"

\* partial deliveries for run_1: each carries some of a status, extracted
\* fields, a result and the breakdown of a task; and one delivery for run_2
PartialDocs ==
    { Doc(ByOwnId, [status |-> "approved", output |-> [first_name |-> "Ana"]]),
      Doc(ByOwnId, [status |-> "processing", output |-> [last_name |-> "Pop"]]),
      Doc(ByOwnId, [status |-> "declined", output |-> EmptyObj]),
      Doc(ByOwnId, [status |-> Null, output |-> [result |-> "consider"]]),
      Doc(ByOwnId, [output |-> [properties |-> "{first_name:Bob}"]]),
      Doc(ByTask("document_check_with_address_information"),
          [output |-> [breakdown |-> "{data_comparison}",
                       sub_result |-> "clear", result |-> "consider"]]),
      Doc(ByTask("device_intelligence"),
          [output |-> [breakdown |-> "{device}", sub_result |-> "", result |-> "clear"]]),
      Doc(ByTask("device_intelligence"),
          [output |-> [breakdown |-> "{visual_authenticity}", sub_result |-> Null]]),
      Doc(ByWorkflowRunId, [status |-> "approved", output |-> [result |-> "clear"]]) }

PartialBodies == {[buffer |-> TRUE, len |-> RawLimit, text |-> JsonText(d)] : d \in PartialDocs}

\* the deliveries that race with the run views
ViewDocs ==
    { Doc(ByOwnId, [status |-> "approved", output |-> [first_name |-> "Ana"]]),
      Doc(ByOwnId, [status |-> "declined", output |-> [first_name |-> "Bob", last_name |-> "Pop"]]),
      Doc(ByOwnId, [output |-> [properties |-> "{first_name:null}"]]),
      Doc(ByWorkflowRunId, [status |-> "approved", output |-> EmptyObj]) }

\* the runs whose view is requested
ViewIds == {"run_1"}

ViewBodies == {[buffer |-> TRUE, len |-> RawLimit, text |-> JsonText(d)] : d \in ViewDocs}

-----------------------------------------------------------------------------
(* The state machine *)

Init ==
    /\ webhookStore = << >>
    /\ clock = 0
    /\ lastReq = [route |-> "none"]
    /\ lastRes = [status |-> 0]
    /\ prevStore = << >>
    /\ repeat = FALSE
    /\ ingested = {}
    /\ inflight = {}
    /\ log = << >>

\* PostWebhook with the record read (line 57) before the request handled last
\* wrote its own, as a handler suspended between lines 57 and 111 would
PostWebhookStaleRead(body) ==
    LET req == [route |-> "POST /webhook/onfido", body |-> body]
    IN /\ Stores(body) => clock < MaxDeliveries
       /\ lastReq' = req
       /\ repeat' = (req = lastReq)
       /\ prevStore' = webhookStore
       /\ IF BodyAccepted(body)
          THEN /\ webhookStore' = HandlerStore(prevStore, body, clock + 1)
               /\ lastRes' = HandlerResponse(body)
          ELSE /\ webhookStore' = webhookStore
               /\ lastRes' = TooLarge413
       /\ clock' = IF Stores(body) THEN clock + 1 ELSE clock
       /\ ingested' = IF Stores(body)
                      THEN ingested \cup {RunIdOf(PayloadOf(JSONParse(RawText(body))))}
                      ELSE ingested

\* POST /webhook/onfido with the given body: express.raw, then the handler
PostWebhook(body) ==
    LET req == [route |-> "POST /webhook/onfido", body |-> body]
    IN /\ Stores(body) => clock < MaxDeliveries
       /\ lastReq' = req
       /\ repeat' = (req = lastReq)
       /\ prevStore' = webhookStore
       /\ IF BodyAccepted(body)
          THEN /\ webhookStore' = HandlerStore(webhookStore, body, clock + 1)
               /\ lastRes' = HandlerResponse(body)
          ELSE /\ webhookStore' = webhookStore
               /\ lastRes' = TooLarge413
       /\ clock' = IF Stores(body) THEN clock + 1 ELSE clock
       /\ ingested' = IF Stores(body)
                      THEN ingested \cup {RunIdOf(PayloadOf(JSONParse(RawText(body))))}
                      ELSE ingested

\* GET /api/webhook_runs/:id
GetWebhookRun(id) ==
    LET req == [route |-> "GET /api/webhook_runs/:id", id |-> id]
    IN /\ lastReq' = req
       /\ repeat' = (req = lastReq)
       /\ prevStore' = webhookStore
       /\ lastRes' = WebhookRunResponse(webhookStore, id)
       /\ UNCHANGED <<webhookStore, clock, ingested>>

\* requests handled one after the other, each answered before the next arrives
Next ==
    \/ \E body \in Bodies : PostWebhook(body) /\ UNCHANGED <<inflight, log>>
    \/ \E id \in ReadIds : GetWebhookRun(id) /\ UNCHANGED <<inflight, log>>

Spec == Init /\ [][Next]_vars

\* deliveries of task results, handled one after the other
NextChecks ==
    \E body \in CheckBodies : PostWebhook(body) /\ UNCHANGED <<inflight, log>>

SpecChecks == Init /\ [][NextChecks]_vars

-----------------------------------------------------------------------------
(* The address of one run view: the request holds the address of the live  *)
(* run and the address the applicant fallback read, the response the       *)
(* address fields computed from them.                                      *)

InitAddress ==
    /\ webhookStore = << >>
    /\ clock = 0
    /\ lastReq \in {[route |-> AddressRoute, address |-> a, applicant_address |-> p] :
                      a \in AddressValues, p \in ApplicantAddresses}
    /\ lastRes = [status |-> 0]
    /\ prevStore = << >>
    /\ repeat = FALSE
    /\ ingested = {}
    /\ inflight = {}
    /\ log = << >>

ViewAddress ==
    /\ lastRes.status = 0
    /\ lastRes' = AddressViewResponse(lastReq.address, lastReq.applicant_address)
    /\ UNCHANGED <<webhookStore, clock, lastReq, prevStore, repeat, ingested, inflight, log>>

NextAddress == ViewAddress

SpecAddress == InitAddress /\ [][NextAddress]_vars

\* a delivery handled, and recorded in the log
LogWebhook(body) ==
    /\ PostWebhook(body)
    /\ log' = Append(log, [body |-> body, t |-> clock + 1])
    /\ UNCHANGED inflight

\* partial deliveries, handled one after the other
NextPartial ==
    \E body \in PartialBodies : LogWebhook(body)

SpecPartial == Init /\ [][NextPartial]_vars

-----------------------------------------------------------------------------
(* Requests in flight.  A handler runs without interruption from one await *)
(* to the next (the webhook handler has none, lines 36-116), so each       *)
(* action below is one such stretch: a request is received, a delivery     *)
(* whose body has been read is handled, a suspended run view is resumed    *)
(* by the provider's answer.                                               *)

RunViewRoute == "GET /api/workflow_runs/:id"

\* a delivery arrives and express.raw starts to read its body
ReceiveWebhook(body) ==
    /\ Cardinality(inflight) < MaxInFlight
    /\ clock + Cardinality({r \in inflight : r.route = "POST /webhook/onfido"}) < MaxRaces
    /\ inflight' = inflight \cup {[route |-> "POST /webhook/onfido", body |-> body]}
    /\ UNCHANGED <<webhookStore, clock, lastReq, lastRes, prevStore, repeat, ingested, log>>

\* the body of a delivery in flight is complete: the handler runs and answers
HandleWebhook(body) ==
    LET req == [route |-> "POST /webhook/onfido", body |-> body]
    IN /\ req \in inflight
       /\ PostWebhook(body)
       /\ inflight' = inflight \ {req}
       /\ log' = Append(log, [body |-> body, t |-> clock + 1])

\* lines 177-182 up to the await of line 136: the run lookup is sent
ReceiveRunView(id) ==
    /\ Cardinality(inflight) < MaxInFlight
    /\ inflight' = inflight \cup {[route |-> RunViewRoute, id |-> id, pc |-> "run"]}
    /\ UNCHANGED <<webhookStore, clock, lastReq, lastRes, prevStore, repeat, ingested, log>>

\* Respond with the status of the webhook record written over the status of a view
RespondStoredStatus(view, req, res) ==
    LET stored == IF MapHas(webhookStore, view.id)
                  THEN Get(MapGet(webhookStore, view.id), "status")
                  ELSE Undefined
    IN /\ lastReq' = req
       /\ lastRes' = IF res.status = 200 /\ Truthy(stored)
                     THEN [res EXCEPT !.json = Put(res.json, "status", stored)]
                     ELSE res
       /\ repeat' = (req = lastReq)
       /\ prevStore' = webhookStore
       /\ inflight' = inflight \ {view}
       /\ UNCHANGED <<webhookStore, clock, ingested, log>>

\* the run view in flight is answered with res
Respond(view, req, res) ==
    /\ lastReq' = req
    /\ lastRes' = res
    /\ repeat' = (req = lastReq)
    /\ prevStore' = webhookStore
    /\ inflight' = inflight \ {view}
    /\ UNCHANGED <<webhookStore, clock, ingested, log>>

\* lines 136-212 from the provider's answer to the run lookup: up to the
\* response, or up to the await of the applicant lookup (line 196)
RunAnswered(view, answer) ==
    LET req     == [route |-> RunViewRoute, id |-> view.id, run |-> answer]
        fetched == OnfidoFetch(answer)
    IN /\ view \in inflight
       /\ view.route = RunViewRoute
       /\ view.pc = "run"
       /\ IF fetched.threw
          THEN Respond(view, req, ErrorResponse(fetched.error))
          ELSE IF fetched.json.kind # "object"
          THEN Respond(view, req, ErrorResponse(NullRunError))
          ELSE LET run        == fetched.json.value
                   output     == ViewOutput(run, webhookStore, view.id)
                   first_name == OrNull(Get(output, "first_name"))
                   last_name  == OrNull(Get(output, "last_name"))
               IN IF NeedsApplicant(run, first_name, last_name)
                  THEN /\ inflight' = (inflight \ {view}) \cup
                            {[route |-> RunViewRoute, id |-> view.id, pc |-> "applicant",
                              answer |-> answer, run |-> run, output |-> output,
                              first_name |-> first_name, last_name |-> last_name]}
                       /\ UNCHANGED <<webhookStore, clock, lastReq, lastRes, prevStore,
                                      repeat, ingested, log>>
                  ELSE Respond(view, req,
                               RunViewResponse(run, output, FullName(first_name, last_name)))

\* ApplicantAnswered without the catch of line 202: a failed lookup reaches line 214
ApplicantAnsweredFatal(view, answer) ==
    LET req     == [route |-> RunViewRoute, id |-> view.id, run |-> view.answer,
                    applicant |-> answer]
        fetched == OnfidoFetch(answer)
    IN /\ view \in inflight
       /\ view.route = RunViewRoute
       /\ view.pc = "applicant"
       /\ IF fetched.threw
          THEN Respond(view, req, ErrorResponse(fetched.error))
          ELSE Respond(view, req,
                       RunViewResponse(view.run, view.output,
                           FullName(NameFallback(view.first_name, fetched.json, "first_name"),
                                    NameFallback(view.last_name, fetched.json, "last_name"))))

\* lines 136-212 from the provider's answer to the applicant lookup
ApplicantAnswered(view, answer) ==
    LET req     == [route |-> RunViewRoute, id |-> view.id, run |-> view.answer,
                    applicant |-> answer]
        fetched == OnfidoFetch(answer)
        first_name == IF fetched.threw THEN view.first_name
                      ELSE NameFallback(view.first_name, fetched.json, "first_name")
        last_name  == IF fetched.threw THEN view.last_name
                      ELSE NameFallback(view.last_name, fetched.json, "last_name")
    IN /\ view \in inflight
       /\ view.route = RunViewRoute
       /\ view.pc = "applicant"
       /\ Respond(view, req,
                  RunViewResponse(view.run, view.output, FullName(first_name, last_name)))

NextRunView ==
    \/ \E body \in ViewBodies : ReceiveWebhook(body)
    \/ \E body \in ViewBodies : HandleWebhook(body)
    \/ \E id \in ViewIds : ReceiveRunView(id)
    \/ \E view \in inflight : \E answer \in RunAnswers : RunAnswered(view, answer)
    \/ \E view \in inflight : \E answer \in ApplicantAnswers : ApplicantAnswered(view, answer)

\* deliveries and run views received, suspended and resumed in any order
SpecRunView == Init /\ [][NextRunView]_vars

-----------------------------------------------------------------------------
(* Vocabulary of the properties *)

IsPost(req) == req.route = "POST /webhook/onfido"
IsRead(req) == req.route = "GET /api/webhook_runs/:id"

\* the body of the request is text that parses as JSON
IsJson(req) == IsPost(req) /\ RawText(req.body).syntax = "json"

\* payload.payload of the document posted, {} when there is none
InnerOf(req) == IF IsJson(req) THEN PayloadOf(JSONParse(RawText(req.body))) ELSE EmptyObj

ResourceOf(req) == GetObj(InnerOf(req), "resource")
OutputOf(req) == GetObj(ResourceOf(req), "output")

\* the run identifier the delivery resolves to, Null when it resolves to none
DeliveryRun(req) == IF IsJson(req) THEN RunIdOf(InnerOf(req)) ELSE Null

\* the request is a delivery that reached the handler and resolved to a run
Ingested(req) == IsPost(req) /\ BodyAccepted(req.body) /\ Truthy(DeliveryRun(req))

\* the fields of an output mapping whose value is not null
NonNullFields(output) == {k \in DOMAIN output : output[k] # Null}

\* the delivery carries a non-null value for k, at top level or in output.properties
CarriesNonNull(output, k) ==
    \/ k \in NonNullFields(output)
    \/ k \in NonNullFields(PropertiesBody(Get(output, "properties")))

\* the request is a run view, answered
IsRunView(req) == req.route = RunViewRoute

\* the store left by the handler run on the deliveries of l one at a time, in order
RECURSIVE Replay(_)
Replay(l) ==
    IF l = << >> THEN << >>
    ELSE HandlerStore(Replay(SubSeq(l, 1, Len(l) - 1)), l[Len(l)].body, l[Len(l)].t)

\* the request is a run view of part_000, answered
IsAddressView(req) == req.route = AddressRoute

\* the non-empty parts of o among keys, in the order of keys, joined with ", "
RECURSIVE JoinedParts(_, _)
JoinedParts(o, keys) ==
    IF keys = << >> THEN ""
    ELSE LET v    == Get(o, Head(keys))
             rest == JoinedParts(o, Tail(keys))
         IN IF v \in {Undefined, Null, ""} THEN rest
            ELSE IF rest = "" THEN v
            ELSE v \o ", " \o rest

\* address lines, town, region, postal code, country
PartOrder == <<"line1", "line2", "line3", "street", "town", "state", "postcode", "country">>

\* a, or b when a is null or missing
FirstNonNull(a, b) == IF a \notin {Null, Undefined} THEN a ELSE b

\* the run identifier by the candidates of the specification's step 2:
\* resource.workflow_run_id, resource.id of a workflow run, object.id
ListedRunId(inner) ==
    FirstNonNull(Get(GetObj(inner, "resource"), "workflow_run_id"),
      FirstNonNull(IF Get(inner, "resource_type") = "workflow_run"
                   THEN Get(GetObj(inner, "resource"), "id") ELSE Null,
        FirstNonNull(Get(GetObj(inner, "object"), "id"), Null)))

\* the task a delivery names, Null when it names none
TaskOf(req) == TaskDefIdOf(InnerOf(req))

\* the breakdown a delivery carries, Undefined when it carries none
BreakdownOf(req) == Get(OutputOf(req), "breakdown")

\* the record a delivery was merged into, before and after
RecordBefore(req) == Existing(prevStore, DeliveryRun(req))
RecordAfter(req) == MapGet(webhookStore, DeliveryRun(req))

\* a record without its timestamp, a store without its timestamps
Untimed(rec) == [k \in DOMAIN rec \ {"received_at"} |-> rec[k]]
UntimedStore(m) == [i \in 1..Len(m) |-> [key |-> m[i].key, value |-> Untimed(m[i].value)]]

-----------------------------------------------------------------------------
(* C1  Accumulation.  When two deliveries for the same run, ingested one    *)
(* after the other, have output mappings with disjoint non-null fields,    *)
(* the stored raw_output holds every non-null field of both with the       *)
(* delivered value.                                                        *)
C1_Accumulation ==
    [][ ( /\ Ingested(lastReq) /\ Ingested(lastReq')
          /\ DeliveryRun(lastReq) = DeliveryRun(lastReq')
          /\ NonNullFields(OutputOf(lastReq)) \cap NonNullFields(OutputOf(lastReq')) = {} )
        => \A o \in {OutputOf(lastReq), OutputOf(lastReq')} :
             \A k \in NonNullFields(o) :
               Get(MapGet(webhookStore', DeliveryRun(lastReq')).raw_output, k) = o[k] ]_vars

(* C2  Null-preservation.  A field stored with a non-null value keeps that *)
(* value through a later delivery for the same run that carries the field  *)
(* as null or does not carry it.                                           *)
C2_NullPreservation ==
    (Ingested(lastReq) /\ MapHas(prevStore, DeliveryRun(lastReq))) =>
        LET before == MapGet(prevStore, DeliveryRun(lastReq)).raw_output
            after  == MapGet(webhookStore, DeliveryRun(lastReq)).raw_output
        IN \A k \in NonNullFields(before) :
             ~CarriesNonNull(OutputOf(lastReq), k) => Get(after, k) = before[k]

(* C3  Status non-regression.  A delivery carrying status "processing" for *)
(* a run whose stored status is a value other than "processing" leaves the *)
(* stored status unchanged; as an invariant, after any number of them.     *)
C3_StatusNonRegression ==
    ( /\ Ingested(lastReq)
      /\ Get(ResourceOf(lastReq), "status") = "processing"
      /\ MapHas(prevStore, DeliveryRun(lastReq))
      /\ Get(MapGet(prevStore, DeliveryRun(lastReq)), "status") \notin {Undefined, "processing"} )
    => MapGet(webhookStore, DeliveryRun(lastReq)).status
         = MapGet(prevStore, DeliveryRun(lastReq)).status

\* a "processing" delivery has been ingested for a run already approved
C3_Witness ==
    /\ Ingested(lastReq)
    /\ Get(ResourceOf(lastReq), "status") = "processing"
    /\ MapHas(prevStore, DeliveryRun(lastReq))
    /\ Get(MapGet(prevStore, DeliveryRun(lastReq)), "status") = "approved"
    /\ MapGet(webhookStore, DeliveryRun(lastReq)).status = "approved"

(* C4  Idempotence.  A request that repeats the one before it has left    *)
(* the records (timestamps aside) as the first of the two left them; and   *)
(* from every reachable store and for every body, the handler run twice on *)
(* the body leaves the records that running it once leaves.  Every         *)
(* reachable store is the store of a state that follows a read of          *)
(* unknown_id, so the second conjunct is evaluated in those states.        *)
C4_Idempotence ==
    /\ (IsPost(lastReq) /\ repeat) => UntimedStore(webhookStore) = UntimedStore(prevStore)
    /\ (IsRead(lastReq) /\ lastReq.id = "unknown_id") =>
         \A body \in Bodies :
           BodyAccepted(body) =>
             UntimedStore(HandlerStore(HandlerStore(webhookStore, body, clock + 1), body, clock + 2))
               = UntimedStore(HandlerStore(webhookStore, body, clock + 1))

\* the same check result has been ingested twice in a row into a run that held
\* fields of an earlier delivery
C4_Witness ==
    /\ repeat
    /\ Ingested(lastReq)
    /\ "breakdown" \in DOMAIN OutputOf(lastReq)
    /\ "first_name" \in DOMAIN MapGet(webhookStore, DeliveryRun(lastReq)).raw_output
    /\ MapGet(webhookStore, DeliveryRun(lastReq)).breakdown = OutputOf(lastReq).breakdown

(* C5  A webhook request whose body does not parse as JSON is answered 200 *)
(* "ok" and leaves the store as it was.                                    *)
C5_MalformedDiscarded ==
    (IsPost(lastReq) /\ ~IsJson(lastReq)) =>
        (lastRes = Ok200 /\ webhookStore = prevStore)

(* C6  A webhook delivery from which no run identifier resolves is         *)
(* answered 200 "ok" and creates or modifies no record.                    *)
C6_NoRunDiscarded ==
    (IsPost(lastReq) /\ ~Truthy(DeliveryRun(lastReq))) =>
        (lastRes = Ok200 /\ webhookStore = prevStore)

(* C7  Every request to POST /webhook/onfido is answered 200 "ok".         *)
C7_AlwaysOk ==
    IsPost(lastReq) => lastRes = Ok200

(* C8  raw_output never shrinks: after every request, each run that had a  *)
(* record still has one, and its raw_output has every key it had before.   *)
C8_RawOutputNeverShrinks ==
    \A r \in MapKeys(prevStore) :
        /\ MapHas(webhookStore, r)
        /\ DOMAIN MapGet(prevStore, r).raw_output \subseteq DOMAIN MapGet(webhookStore, r).raw_output

\* a delivery that does not carry first_name has been merged into a record that holds it
C8_Witness ==
    /\ Ingested(lastReq)
    /\ MapHas(prevStore, DeliveryRun(lastReq))
    /\ "first_name" \in DOMAIN MapGet(prevStore, DeliveryRun(lastReq)).raw_output
    /\ "first_name" \notin DOMAIN OutputOf(lastReq)
    /\ NonNullFields(OutputOf(lastReq)) # {}
    /\ "first_name" \in DOMAIN MapGet(webhookStore, DeliveryRun(lastReq)).raw_output

(* C9  The store holds at most one record per run identifier, the record   *)
(* under key K has workflow_run_id K, and a delivery never changes the     *)
(* workflow_run_id of a record that existed before it.                     *)
C9_OneRecordPerRun ==
    /\ \A i, j \in 1..Len(webhookStore) :
         webhookStore[i].key = webhookStore[j].key => i = j
    /\ \A i \in 1..Len(webhookStore) :
         webhookStore[i].value.workflow_run_id = webhookStore[i].key
    /\ \A r \in MapKeys(prevStore) :
         /\ MapHas(webhookStore, r)
         /\ MapGet(webhookStore, r).workflow_run_id = MapGet(prevStore, r).workflow_run_id

\* two runs are stored and the last delivery was merged into an existing record
C9_Witness ==
    /\ Len(webhookStore) = 2
    /\ Ingested(lastReq)
    /\ MapHas(prevStore, DeliveryRun(lastReq))
    /\ ResourceOf(lastReq).id # DeliveryRun(lastReq)

(* C10  GET /api/webhook_runs/:id answers 404 {message: "not found"}       *)
(* exactly when no delivery resolving to the identifier has been ingested, *)
(* and otherwise 200 with the stored record; read right after a delivery   *)
(* whose resource carries id R, status S and output O, it returns status S *)
(* and a raw_output holding the non-null fields of O.                      *)
C10_ReadAfterIngest ==
    [][ IsRead(lastReq') =>
          /\ IF lastReq'.id \in ingested'
             THEN lastRes' = [status |-> 200, json |-> MapGet(webhookStore', lastReq'.id)]
             ELSE lastRes' = [status |-> 404, json |-> [message |-> "not found"]]
          /\ ( /\ Ingested(lastReq)
               /\ Get(ResourceOf(lastReq), "id") = lastReq'.id
               /\ DeliveryRun(lastReq) = lastReq'.id
               /\ Get(ResourceOf(lastReq), "status") # Undefined )
             => /\ lastRes'.status = 200
                /\ lastRes'.json.status = ResourceOf(lastReq).status
                /\ \A k \in NonNullFields(OutputOf(lastReq)) :
                     Get(lastRes'.json.raw_output, k) = OutputOf(lastReq)[k] ]_vars

(* C11  The run view does not swallow a failure of the live run lookup:    *)
(* whenever the provider answers the lookup with a non-success status,     *)
(* the response carries that status and a populated error field, so the    *)
(* webhook record never produces a success response.                       *)
C11_RunFetchFailureSurfaced ==
    (IsRunView(lastReq) /\ lastReq.run.arrived /\ ~ResOk(lastReq.run.status)) =>
        /\ lastRes.status = lastReq.run.status
        /\ Truthy(Get(lastRes.json, "error"))

(* C12  The read-modify-write of the webhook handler is atomic: however    *)
(* deliveries in flight and run views suspended on provider calls are      *)
(* interleaved, the store is the one left by handling the deliveries one   *)
(* at a time in the order the handler ran on them.                         *)
C12_SerialEquivalence ==
    webhookStore = Replay(log)

\* two different deliveries for run_1 have been handled while a run view of run_1,
\* suspended on the applicant lookup, holds an output read before the second
C12_Witness ==
    /\ Len(log) = 2
    /\ log[1].body # log[2].body
    /\ MapHas(webhookStore, "run_1")
    /\ MapGet(webhookStore, "run_1").received_at = 2
    /\ \E view \in inflight :
         /\ view.route = RunViewRoute
         /\ view.pc = "applicant"
         /\ view.id = "run_1"
         /\ Get(view.output, "first_name") # Get(MapGet(webhookStore, "run_1").raw_output, "first_name")
    /\ webhookStore = Replay(log)

(* C13  A delivery that resolves to run A leaves the record of every other *)
(* run B exactly as it was: breakdowns, raw_output, status, received_at    *)
(* and every other field.                                                  *)
C13_OtherRunsUntouched ==
    Ingested(lastReq) =>
        \A r \in MapKeys(prevStore) \ {DeliveryRun(lastReq)} :
            /\ MapHas(webhookStore, r)
            /\ MapGet(webhookStore, r) = MapGet(prevStore, r)

\* a breakdown has been stored for run_1 while run_2 held breakdowns of its own
C13_Witness ==
    /\ Ingested(lastReq)
    /\ DeliveryRun(lastReq) = "run_1"
    /\ "breakdown" \in DOMAIN OutputOf(lastReq)
    /\ MapHas(prevStore, "run_2")
    /\ DOMAIN MapGet(prevStore, "run_2").breakdowns # {}
    /\ MapGet(webhookStore, "run_1").breakdowns # MapGet(webhookStore, "run_2").breakdowns
    /\ MapGet(webhookStore, "run_2") = MapGet(prevStore, "run_2")

(* C14  address_formatted: when address is a string it is used verbatim;   *)
(* when it is a structured object the result is its non-empty parts among  *)
(* address lines, town, region, postal code and country, in that order,    *)
(* joined with ", ".                                                       *)
C14_AddressFormatted ==
    (IsAddressView(lastReq) /\ lastRes.status = 200) =>
        /\ lastReq.address.type = "string" =>
             lastRes.json.address_formatted = lastReq.address.str
        /\ lastReq.address.type = "object" =>
             lastRes.json.address_formatted = JoinedParts(lastReq.address.obj, PartOrder)

(* C14 amended  address_formatted: a non-empty string address is used      *)
(* verbatim; a structured object gives its non-empty parts among address   *)
(* lines, town, region, postal code and country, in that order, joined     *)
(* with ", ", and null when no part is non-empty; an empty string counts   *)
(* as no address.                                                          *)
C14_AddressFormattedNonEmpty ==
    (IsAddressView(lastReq) /\ lastRes.status = 200) =>
        /\ (lastReq.address.type = "string" /\ lastReq.address.str # "") =>
             lastRes.json.address_formatted = lastReq.address.str
        /\ lastReq.address.type = "object" =>
             lastRes.json.address_formatted =
                 IF JoinedParts(lastReq.address.obj, PartOrder) # ""
                 THEN JoinedParts(lastReq.address.obj, PartOrder)
                 ELSE Null
        /\ (lastReq.address.type = "string" /\ lastReq.address.str = "") =>
             lastRes.json.address_formatted =
                 AddressFormatted(JsUndefined, lastReq.applicant_address)

\* the address {line1: "Str. X", town: "Cluj", country: "RO"} has been formatted
C14_Witness ==
    /\ IsAddressView(lastReq)
    /\ lastReq.address = Obj([line1 |-> "Str. X", town |-> "Cluj", country |-> "RO"])
    /\ lastRes.status = 200
    /\ lastRes.json.address_formatted = "Str. X, Cluj, RO"

(* C15  The run identifier of a delivery is the first non-null of          *)
(* resource.workflow_run_id, resource.id when the resource type is         *)
(* workflow run, and object.id: the delivery is stored under it, and is    *)
(* discarded when all three are null.                                      *)
C15_RunIdExtraction ==
    (IsJson(lastReq) /\ BodyAccepted(lastReq.body)) =>
        LET id == ListedRunId(InnerOf(lastReq))
        IN IF id # Null
           THEN /\ MapHas(webhookStore, id)
                /\ MapGet(webhookStore, id).received_at = clock
           ELSE webhookStore = prevStore

(* C16  The stored status is overwritten by the incoming status when that  *)
(* is present and not "processing", or when no status has been recorded    *)
(* for the run yet (the first non-null status is accepted even if it is    *)
(* "processing"); otherwise the stored status is kept.                     *)
C16_StatusResolution ==
    Ingested(lastReq) =>
        LET incoming == Get(ResourceOf(lastReq), "status")
            recorded == Get(Existing(prevStore, DeliveryRun(lastReq)), "status")
            stored   == Get(MapGet(webhookStore, DeliveryRun(lastReq)), "status")
        IN IF /\ incoming \notin {Undefined, Null}
              /\ (incoming # "processing" \/ recorded \in {Undefined, Null})
           THEN stored = incoming
           ELSE stored = recorded

(* C17  The keys of output.properties are merged flat into raw_output      *)
(* under overwrite-if-non-null: a non-null property is stored under its    *)
(* key, and a null property leaves the existing raw_output[k] unchanged.   *)
C17_PropertiesMerged ==
    (Ingested(lastReq) /\ Get(OutputOf(lastReq), "properties") \in PropertiesObjects) =>
        LET props  == PropertiesBody(OutputOf(lastReq).properties)
            before == Existing(prevStore, DeliveryRun(lastReq)).raw_output
            after  == MapGet(webhookStore, DeliveryRun(lastReq)).raw_output
        IN \A k \in DOMAIN props :
             IF props[k] # Null
             THEN Get(after, k) = props[k]
             ELSE (k \in DOMAIN before /\ k \notin NonNullFields(OutputOf(lastReq)))
                    => Get(after, k) = before[k]

(* C18  After every ingested delivery the breakdown of the record is its   *)
(* document_breakdown when that is set, otherwise the entry of breakdowns  *)
(* for document_check_with_address_information when present, otherwise the *)
(* breakdown stored before, otherwise null.                                *)
C18_BreakdownPriority ==
    Ingested(lastReq) =>
        LET rec == RecordAfter(lastReq)
            old == RecordBefore(lastReq)
        IN rec.breakdown =
             IF rec.document_breakdown # Null THEN rec.document_breakdown
             ELSE IF "document_check_with_address_information" \in DOMAIN rec.breakdowns
             THEN rec.breakdowns["document_check_with_address_information"]
             ELSE IF Get(old, "breakdown") \notin {Undefined, Null} THEN old.breakdown
             ELSE Null

\* the record holds a document_breakdown and a different entry for the well-known
\* task, and its breakdown is the document_breakdown
C18_Witness ==
    /\ Ingested(lastReq)
    /\ RecordAfter(lastReq).document_breakdown = "{visual_authenticity}"
    /\ Get(RecordAfter(lastReq).breakdowns, "document_check_with_address_information")
         = "{data_comparison}"
    /\ RecordAfter(lastReq).breakdown = "{visual_authenticity}"

(* C19  Whenever the output of a delivery carries a breakdown, it is       *)
(* stored in breakdowns under the task identifier of the delivery, and it  *)
(* is the document_breakdown when it has the visual-authenticity marker    *)
(* and the device_breakdown when it has the device marker.                 *)
C19_BreakdownStored ==
    (Ingested(lastReq) /\ BreakdownOf(lastReq) \in BreakdownObjects) =>
        LET b   == BreakdownOf(lastReq)
            rec == RecordAfter(lastReq)
        IN /\ Get(rec.breakdowns, TaskOf(lastReq)) = b
           /\ HasVisualAuthenticity(b) => rec.document_breakdown = b
           /\ HasDevice(b) => rec.device_breakdown = b

(* C19 amended  Whenever a delivery names its task (task_def_id) and its   *)
(* output carries a breakdown, the breakdown is stored in breakdowns under *)
(* that task, and it is the document_breakdown when it has the             *)
(* visual-authenticity marker and the device_breakdown when it has the     *)
(* device marker; a breakdown delivered without a task is not stored.      *)
C19_BreakdownStoredForTask ==
    (Ingested(lastReq) /\ BreakdownOf(lastReq) \in BreakdownObjects) =>
        LET b   == BreakdownOf(lastReq)
            rec == RecordAfter(lastReq)
            old == RecordBefore(lastReq)
        IN IF Truthy(TaskOf(lastReq))
           THEN /\ Get(rec.breakdowns, TaskOf(lastReq)) = b
                /\ HasVisualAuthenticity(b) => rec.document_breakdown = b
                /\ HasDevice(b) => rec.device_breakdown = b
           ELSE /\ rec.breakdowns = old.breakdowns
                /\ rec.document_breakdown = old.document_breakdown
                /\ rec.device_breakdown = old.device_breakdown

\* a breakdown with the device marker, delivered for a task named on payload.object,
\* has been stored under the task and as device_breakdown
C19_Witness ==
    /\ Ingested(lastReq)
    /\ TaskOf(lastReq) = "device_intelligence"
    /\ "task_def_id" \notin DOMAIN ResourceOf(lastReq)
    /\ BreakdownOf(lastReq) = "{device}"
    /\ Get(RecordAfter(lastReq).breakdowns, "device_intelligence") = "{device}"
    /\ RecordAfter(lastReq).device_breakdown = "{device}"
    /\ RecordAfter(lastReq).document_breakdown = Null

(* C20  Deliveries for distinct checks compose: a delivery for a task      *)
(* stores its breakdown under that task and leaves the entry of breakdowns *)
(* of every other task as it was, so that after deliveries for two tasks   *)
(* in either order breakdowns holds both; and it leaves document_breakdown *)
(* (and the breakdown resolved from it) and device_breakdown as they were  *)
(* unless its own breakdown has the same marker.                           *)
C20_ChecksCompose ==
    Ingested(lastReq) =>
        LET b   == BreakdownOf(lastReq)
            rec == RecordAfter(lastReq)
            old == RecordBefore(lastReq)
        IN /\ \A t \in DOMAIN old.breakdowns \ {TaskOf(lastReq)} :
                Get(rec.breakdowns, t) = old.breakdowns[t]
           /\ (Truthy(TaskOf(lastReq)) /\ b \in BreakdownObjects) =>
                Get(rec.breakdowns, TaskOf(lastReq)) = b
           /\ ~HasVisualAuthenticity(b) => rec.document_breakdown = old.document_breakdown
           /\ ~HasDevice(b) => rec.device_breakdown = old.device_breakdown
           /\ ( /\ ~HasVisualAuthenticity(b)
                /\ TaskOf(lastReq) # "document_check_with_address_information"
                /\ MapHas(prevStore, DeliveryRun(lastReq)) )
              => rec.breakdown = old.breakdown

\* a device breakdown has been delivered for one task into a record that held the
\* document breakdown of another: breakdowns holds both, document_breakdown is kept
C20_Witness ==
    /\ Ingested(lastReq)
    /\ TaskOf(lastReq) = "device_intelligence"
    /\ BreakdownOf(lastReq) = "{device}"
    /\ RecordBefore(lastReq).document_breakdown = "{visual_authenticity}"
    /\ DOMAIN RecordBefore(lastReq).breakdowns = {"document_check_with_address_information"}
    /\ DOMAIN RecordAfter(lastReq).breakdowns = Tasks
    /\ RecordAfter(lastReq).breakdowns["document_check_with_address_information"]
         = "{visual_authenticity}"
    /\ RecordAfter(lastReq).breakdowns["device_intelligence"] = "{device}"
    /\ RecordAfter(lastReq).document_breakdown = "{visual_authenticity}"
    /\ RecordAfter(lastReq).breakdown = "{visual_authenticity}"

(* C21  Result resolution: the stored result becomes the incoming          *)
(* sub_result when that is non-null, else the incoming result when that is *)
(* non-null, else it keeps its previous value (null if there was none); a  *)
(* delivery with neither field never changes the stored result.            *)
C21_ResultResolution ==
    Ingested(lastReq) =>
        LET sub == Get(OutputOf(lastReq), "sub_result")
            res == Get(OutputOf(lastReq), "result")
            old == Get(RecordBefore(lastReq), "result")
        IN RecordAfter(lastReq).result =
             IF sub \notin {Null, Undefined} THEN sub
             ELSE IF res \notin {Null, Undefined} THEN res
             ELSE IF old \notin {Null, Undefined} THEN old
             ELSE Null

(* C21 amended  Result resolution: the stored result becomes the incoming  *)
(* sub_result when that is neither null nor the empty string, else the     *)
(* incoming result when that is neither null nor the empty string, else it *)
(* keeps its previous value (null if there was none); a delivery with      *)
(* neither field never changes the stored result.                          *)
C21_ResultResolutionNonEmpty ==
    Ingested(lastReq) =>
        LET sub == Get(OutputOf(lastReq), "sub_result")
            res == Get(OutputOf(lastReq), "result")
            old == Get(RecordBefore(lastReq), "result")
        IN RecordAfter(lastReq).result =
             IF sub \notin {Null, Undefined, ""} THEN sub
             ELSE IF res \notin {Null, Undefined, ""} THEN res
             ELSE IF old \notin {Null, Undefined} THEN old
             ELSE Null

\* a delivery with both fields has replaced a stored result by its sub_result, and
\* the one before it carried neither
C21_Witness ==
    /\ Ingested(lastReq)
    /\ Get(OutputOf(lastReq), "sub_result") = "clear"
    /\ Get(OutputOf(lastReq), "result") = "consider"
    /\ Get(RecordBefore(lastReq), "result") = "consider"
    /\ RecordAfter(lastReq).result = "clear"
    /\ Len(log) = 3
    /\ DOMAIN OutputOf([route |-> "POST /webhook/onfido", body |-> log[2].body])
         \cap {"sub_result", "result"} = {}

\* the run of an answered run view, as onfidoFetch returned it
LiveRunOf(req) == OnfidoFetch(req.run).json.value

\* the run lookup of a run view returned a run
RunFetched(req) ==
    /\ IsRunView(req)
    /\ ~OnfidoFetch(req.run).threw
    /\ OnfidoFetch(req.run).json.kind = "object"

\* the raw_output of the record of run id in store m, empty without a record
RawOutputOf(m, id) == IF MapHas(m, id) THEN MapGet(m, id).raw_output ELSE EmptyObj

(* C22  The merged output of the run view starts from the output of the    *)
(* live run and is overlaid with every non-null field of the raw_output of *)
(* the webhook record: a non-null webhook value wins, and a key whose      *)
(* webhook value is null or absent keeps the live value.                   *)
C22_OutputOverlay ==
    (RunFetched(lastReq) /\ "applicant" \notin DOMAIN lastReq) =>
        LET live == GetObj(LiveRunOf(lastReq), "output")
            raw  == RawOutputOf(prevStore, lastReq.id)
            out  == lastRes.json.output
        IN \A k \in DOMAIN live \cup DOMAIN raw \cup DOMAIN out :
             Get(out, k) = IF Get(raw, k) \notin {Null, Undefined}
                           THEN raw[k]
                           ELSE Get(live, k)

(* C23  A failure of the applicant lookup is not fatal: when the live run  *)
(* was fetched and the applicant lookup fails with any provider error, the *)
(* response is still a success that carries the run data, with the name    *)
(* fields the merged output does not resolve left null; and a name present *)
(* in the merged output is never replaced by the applicant's.              *)
C23_ApplicantFailureNonFatal ==
    (IsRunView(lastReq) /\ "applicant" \in DOMAIN lastReq) =>
        LET run       == LiveRunOf(lastReq)
            applicant == OnfidoFetch(lastReq.applicant)
            theirs(k) == IF ~applicant.threw /\ applicant.json.kind = "object"
                         THEN {Get(applicant.json.value, k)}
                         ELSE {}
            json      == lastRes.json
        IN /\ lastRes.status = 200
           /\ \A k \in DOMAIN run \ {"output", "full_name"} : Get(json, k) = run[k]
           /\ applicant.threw =>
                json.full_name = FullName(OrNull(Get(json.output, "first_name")),
                                          OrNull(Get(json.output, "last_name")))
           /\ Truthy(Get(json.output, "first_name")) =>
                \E ln \in {Null, Get(json.output, "last_name")} \cup theirs("last_name") :
                    json.full_name = FullName(json.output.first_name, ln)
           /\ Truthy(Get(json.output, "last_name")) =>
                \E fn \in {Null, Get(json.output, "first_name")} \cup theirs("first_name") :
                    json.full_name = FullName(fn, json.output.last_name)

\* the applicant lookup failed on the network, and the view of the run came back with
\* the name of its output
C23_Witness ==
    /\ IsRunView(lastReq)
    /\ "applicant" \in DOMAIN lastReq
    /\ ~lastReq.applicant.arrived
    /\ lastRes.status = 200
    /\ Get(lastRes.json, "applicant_id") = "app_1"
    /\ lastRes.json.full_name = "Ana"

(* C24  full_name of the run view is the full_name field of the merged     *)
(* output when that is present; otherwise the non-null first_name and      *)
(* last_name joined by a single space, and empty when both are absent.     *)
C24_FullName ==
    (RunFetched(lastReq) /\ "applicant" \notin DOMAIN lastReq) =>
        LET out == lastRes.json.output
        IN lastRes.json.full_name =
             IF Get(out, "full_name") \notin {Null, Undefined}
             THEN out.full_name
             ELSE FullName(OrNull(Get(out, "first_name")), OrNull(Get(out, "last_name")))

(* C25  For every non-success response of the provider, whatever its body, *)
(* the provider client fails with an error that carries the HTTP status of *)
(* the response, the parsed payload, and as message error.message of the   *)
(* payload, else its message, else a generic string with the status.       *)
C25_ProviderErrorCarried ==
    (IsRunView(lastReq) /\ lastReq.run.arrived /\ ~ResOk(lastReq.run.status)) =>
        LET fetched == OnfidoFetch(lastReq.run)
            parsed  == ParseBody(lastReq.run.text)
            payload == IF parsed.ok THEN parsed ELSE [kind |-> "none"]
        IN /\ fetched.threw
           /\ "status" \in DOMAIN fetched.error
           /\ fetched.error.status = lastReq.run.status
           /\ fetched.error.message = ErrorMessage(payload, lastReq.run.status)
           /\ parsed.ok => fetched.error.payload = parsed
           /\ lastRes = ErrorResponse(fetched.error)

(* C26  On a success status whose body is not JSON, the provider client    *)
(* returns null rather than failing.                                       *)
C26_NonJsonSuccessIsNull ==
    (IsRunView(lastReq) /\ lastReq.run.arrived /\ ResOk(lastReq.run.status)
       /\ ~ParseBody(lastReq.run.text).ok) =>
        /\ ~OnfidoFetch(lastReq.run).threw
        /\ OnfidoFetch(lastReq.run).json = ParseBody(EmptyText)
        /\ lastRes = ErrorResponse(NullRunError)

(* C29  The status the run view returns is always the status of the live   *)
(* run: the status of the webhook record never overrides it, even when the *)
(* record holds a non-processing status and the live run reports           *)
(* "processing"; and no step of the run view creates or modifies a record  *)
(* of the store.                                                           *)
C29_LiveStatusOnly ==
    [][ /\ (log' = log) => (webhookStore' = webhookStore)
        /\ (log' = log /\ RunFetched(lastReq') /\ lastRes'.status = 200) =>
              Get(lastRes'.json, "status") = Get(LiveRunOf(lastReq'), "status") ]_vars

\* the view of run_1 came back "processing" while the record of run_1 holds a
\* non-processing status
C29_Witness ==
    /\ RunFetched(lastReq)
    /\ lastReq.id = "run_1"
    /\ lastRes.status = 200
    /\ lastRes.json.status = "processing"
    /\ MapHas(webhookStore, "run_1")
    /\ MapGet(webhookStore, "run_1").status \in {"approved", "declined"}
    /\ webhookStore = prevStore

\* a handled delivery of the log, as the request it was
Delivery(entry) == [route |-> "POST /webhook/onfido", body |-> entry.body]

\* the keys of raw_output a delivery writes (lines 68 and 73)
WrittenKeys(req) ==
    NonNullFields(OutputOf(req)) \cup
      (IF IsObject(Get(OutputOf(req), "properties"))
       THEN DOMAIN PropertiesBody(OutputOf(req).properties)
       ELSE {})

\* the delivery carries a status that is a string other than "processing"
CarriesStatus(req) == Get(ResourceOf(req), "status") \notin {Undefined, Null, "processing"}

\* the delivery carries a result or a sub_result
CarriesResult(req) ==
    \E k \in {"result", "sub_result"} : Get(OutputOf(req), k) \notin {Undefined, Null}

\* two deliveries for one run that are partial to each other
Partial(a, b) ==
    /\ Ingested(a) /\ Ingested(b)
    /\ DeliveryRun(a) = DeliveryRun(b)
    /\ WrittenKeys(a) \cap WrittenKeys(b) = {}
    /\ ~(CarriesStatus(a) /\ CarriesStatus(b))
    /\ ~(CarriesResult(a) /\ CarriesResult(b))
    /\ (IsObject(BreakdownOf(a)) /\ IsObject(BreakdownOf(b))) =>
          /\ TaskOf(a) # TaskOf(b)
          /\ ~(HasVisualAuthenticity(BreakdownOf(a)) /\ HasVisualAuthenticity(BreakdownOf(b)))
          /\ ~(HasDevice(BreakdownOf(a)) /\ HasDevice(BreakdownOf(b)))

\* the log with the bodies of its last two deliveries exchanged
LastTwoSwapped(l) ==
    LET n == Len(l)
    IN [l EXCEPT ![n - 1] = [body |-> l[n].body, t |-> l[n - 1].t],
                 ![n]     = [body |-> l[n - 1].body, t |-> l[n].t]]

RECURSIVE StatusAfter(_, _)
StatusAfter(l, id) ==
    IF l = << >> THEN Undefined
    ELSE LET d == Delivery(l[Len(l)])
         IN IF Ingested(d) /\ DeliveryRun(d) = id /\ CarriesStatus(d)
            THEN ResourceOf(d).status
            ELSE StatusAfter(SubSeq(l, 1, Len(l) - 1), id)

(* C28  After any sequence of deliveries for a run, the stored status is   *)
(* the status of the most recent delivery whose resource status is a       *)
(* string other than "processing": a later such status replaces an earlier *)
(* one whatever the two values are, and a delivery with no status leaves   *)
(* the stored status unchanged.                                            *)
C28_LatestStatus ==
    /\ \A i \in 1..Len(webhookStore) :
          webhookStore[i].value.status = StatusAfter(log, webhookStore[i].key)
    /\ (Ingested(lastReq) /\ Get(ResourceOf(lastReq), "status") = Undefined) =>
          RecordAfter(lastReq).status = Get(RecordBefore(lastReq), "status")

\* "approved" has replaced "declined" for run_1, and a delivery without a status
\* came after
C28_Witness ==
    /\ Len(log) = 3
    /\ DeliveryRun(Delivery(log[1])) = "run_1"
    /\ Get(ResourceOf(Delivery(log[1])), "status") = "declined"
    /\ DeliveryRun(Delivery(log[2])) = "run_1"
    /\ Get(ResourceOf(Delivery(log[2])), "status") = "approved"
    /\ DeliveryRun(lastReq) = "run_1"
    /\ Get(ResourceOf(lastReq), "status") = Undefined
    /\ MapGet(webhookStore, "run_1").status = "approved"

====
